---------------------------- MODULE Spec2Model ----------------------------
(***************************************************************************)
(* Recipe costing and integrity model of the restaurant_operations module  *)
(* (models/recipe.py): restaurant.recipe, restaurant.recipe.ingredient and *)
(* restaurant.recipe.instruction, with the product price they read.        *)
(*                                                                         *)
(* Float fields are modelled in fixed-point units as integers; the one     *)
(* float division (cost per serving) is an exact fraction in lowest terms. *)
(* Every ORM operation (create, write, unlink) is one transaction: the     *)
(* field writes, the recomputation of the stored computed fields its       *)
(* api.depends declarations trigger, and the api.constrains checks; an     *)
(* exception raised by a check rolls the whole transaction back.           *)
(***************************************************************************)
EXTENDS Integers, Sequences, FiniteSets

VARIABLES recipes, ingredients, instructions, products, result

vars == <<recipes, ingredients, instructions, products, result>>

(* ------------------------------ bounds -------------------------------- *)
MaxRecipes == 2
MaxIngredients == 2
MaxInstructions == 2
NumProducts == 2
MaxPrice == 2
MaxQuantity == 2
MaxServing == 2
MaxSeqOffset == 1

(* ------------------------- program constants -------------------------- *)
DefaultServingSize == 1
DefaultQuantity == 1
DefaultSequence == 10

RecipeIds == 1..MaxRecipes
IngredientIds == 1..MaxIngredients
InstructionIds == 1..MaxInstructions
ProductIds == 1..NumProducts
\* every product has its own default unit of measure; uom ids are product ids
UomIds == ProductIds
NoProduct == 0
Prices == 1..MaxPrice
Quantities == 0..MaxQuantity
ServingValues == (0 - 1)..MaxServing
SequenceValues == {DefaultSequence + d : d \in 0..MaxSeqOffset}

(* ------------------------------ helpers ------------------------------- *)
Abs(n) == IF n < 0 THEN 0 - n ELSE n

RECURSIVE Gcd(_, _)
Gcd(a, b) == IF b = 0 THEN a ELSE Gcd(b, a % b)

\* Python's float true division a / b (b # 0), as an exact fraction
TrueDiv(a, b) ==
    LET g == Gcd(Abs(a), Abs(b))
        s == IF b < 0 THEN 0 - 1 ELSE 1
    IN  [num |-> (s * a) \div g, den |-> (s * b) \div g]

\* the float 0.0
Zero == [num |-> 0, den |-> 1]

MinFree(ids, used) == CHOOSE i \in ids \ used : \A j \in ids \ used : i <= j

\* recipe.ingredient_ids: the lines whose recipe_id is the recipe
ingredient_ids(lines, r) == {i \in DOMAIN lines : lines[i].recipe_id = r}

\* recipe.instruction_ids as a set of rows
instruction_ids(steps, r) == {j \in DOMAIN steps : steps[j].recipe_id = r}

(* ------------------------- computed fields ---------------------------- *)
\* RecipeIngredient.unit_cost: related='product_id.standard_price'
unit_cost(line, prods) ==
    IF line.product_id = NoProduct THEN 0 ELSE prods[line.product_id].standard_price

\* faulty variant: the line cost drifts by adding to the stored value
RecipeIngredient_compute_total_cost_accumulate(line) ==
    [line EXCEPT !.total_cost = line.total_cost + line.quantity * line.unit_cost]

\* RecipeIngredient._compute_total_cost
RecipeIngredient_compute_total_cost(line) ==
    [line EXCEPT !.total_cost = line.quantity * line.unit_cost]

\* Python's sum() over the total_cost of the lines S
RECURSIVE PySum(_, _)
PySum(lines, S) ==
    IF S = {} THEN 0
    ELSE LET i == CHOOSE x \in S : TRUE
         IN  lines[i].total_cost + PySum(lines, S \ {i})

\* faulty variant: the recipe total is incremented instead of re-summed
Recipe_compute_total_cost_accumulate(recipe, r, lines) ==
    [recipe EXCEPT !.total_cost = recipe.total_cost + PySum(lines, ingredient_ids(lines, r))]

\* Recipe._compute_total_cost
Recipe_compute_total_cost(recipe, r, lines) ==
    [recipe EXCEPT !.total_cost = PySum(lines, ingredient_ids(lines, r))]

\* faulty variant: floor division instead of true division
Recipe_compute_cost_per_serving_floor(recipe) ==
    IF recipe.serving_size > 0
    THEN [recipe EXCEPT !.cost_per_serving =
            [num |-> recipe.total_cost \div recipe.serving_size, den |-> 1]]
    ELSE [recipe EXCEPT !.cost_per_serving = Zero]

\* Recipe._compute_cost_per_serving
Recipe_compute_cost_per_serving(recipe) ==
    IF recipe.serving_size > 0
    THEN [recipe EXCEPT !.cost_per_serving = TrueDiv(recipe.total_cost, recipe.serving_size)]
    ELSE [recipe EXCEPT !.cost_per_serving = Zero]

\* faulty variant: zero is let through
Recipe_check_serving_size_negative_only(recipe) == recipe.serving_size < 0

\* Recipe._check_serving_size: TRUE when it raises ValidationError
Recipe_check_serving_size(recipe) == recipe.serving_size <= 0

\* faulty variant: the onchange leaves the unit alone
RecipeIngredient_onchange_product_id_keep(line, prods) == line

\* RecipeIngredient._onchange_product_id
RecipeIngredient_onchange_product_id(line, prods) ==
    IF line.product_id # NoProduct
    THEN [line EXCEPT !.uom_id = prods[line.product_id].uom_id]
    ELSE line

(* ----------------- recomputation triggered by api.depends ------------- *)
Restrict(f, S) == [x \in S |-> f[x]]

Extend(f, k, v) == [x \in DOMAIN f \cup {k} |-> IF x = k THEN v ELSE f[x]]

\* faulty variant: unit_cost is a snapshot taken when the product is chosen
UnitCostDirty_snapshot(oldI, newI, oldP, newP) ==
    {i \in DOMAIN newI :
        \/ i \notin DOMAIN oldI
        \/ newI[i].product_id # oldI[i].product_id}

\* lines whose stored related unit_cost is refreshed: new lines, lines whose
\* product_id changed, lines whose product's standard_price changed
UnitCostDirty(oldI, newI, oldP, newP) ==
    {i \in DOMAIN newI :
        \/ i \notin DOMAIN oldI
        \/ newI[i].product_id # oldI[i].product_id
        \/ /\ newI[i].product_id # NoProduct
           /\ newP[newI[i].product_id].standard_price
                # oldP[newI[i].product_id].standard_price}

\* api.depends('quantity', 'unit_cost') of RecipeIngredient._compute_total_cost
LineCostDirty(oldI, newI) ==
    {i \in DOMAIN newI :
        \/ i \notin DOMAIN oldI
        \/ newI[i].quantity # oldI[i].quantity
        \/ newI[i].unit_cost # oldI[i].unit_cost}

\* faulty variant: a re-pointed line triggers its new recipe only
RecipeTotalDirty_new_owner(oldR, newR, oldI, newI) ==
    {r \in DOMAIN newR :
        \/ r \notin DOMAIN oldR
        \/ \E i \in DOMAIN oldI \ DOMAIN newI : oldI[i].recipe_id = r
        \/ \E i \in DOMAIN newI \ DOMAIN oldI : newI[i].recipe_id = r
        \/ \E i \in DOMAIN newI \cap DOMAIN oldI :
              /\ r = newI[i].recipe_id
              /\ \/ oldI[i].recipe_id # newI[i].recipe_id
                 \/ oldI[i].total_cost # newI[i].total_cost}

\* api.depends('ingredient_ids.total_cost') of Recipe._compute_total_cost:
\* recipes that gained or lost a line, or own a line whose total_cost changed
RecipeTotalDirty(oldR, newR, oldI, newI) ==
    {r \in DOMAIN newR :
        \/ r \notin DOMAIN oldR
        \/ \E i \in DOMAIN oldI \ DOMAIN newI : oldI[i].recipe_id = r
        \/ \E i \in DOMAIN newI \ DOMAIN oldI : newI[i].recipe_id = r
        \/ \E i \in DOMAIN newI \cap DOMAIN oldI :
              /\ r \in {oldI[i].recipe_id, newI[i].recipe_id}
              /\ \/ oldI[i].recipe_id # newI[i].recipe_id
                 \/ oldI[i].total_cost # newI[i].total_cost}

\* api.depends('total_cost', 'serving_size') of Recipe._compute_cost_per_serving
CostPerServingDirty(oldR, newR) ==
    {r \in DOMAIN newR :
        \/ r \notin DOMAIN oldR
        \/ newR[r].total_cost # oldR[r].total_cost
        \/ newR[r].serving_size # oldR[r].serving_size}

\* the recomputation at the end of a transaction that wrote newR, newI, newP
\* over the committed oldR, oldI, oldP, in dependency order:
\* unit_cost, line total_cost, recipe total_cost, cost_per_serving
Flush(oldR, oldI, oldP, newR, newI, newP) ==
    LET ucD == UnitCostDirty(oldI, newI, oldP, newP)
        I1 == [i \in DOMAIN newI |->
                 IF i \in ucD
                 THEN [newI[i] EXCEPT !.unit_cost = unit_cost(newI[i], newP)]
                 ELSE newI[i]]
        lcD == LineCostDirty(oldI, I1)
        I2 == [i \in DOMAIN I1 |->
                 IF i \in lcD THEN RecipeIngredient_compute_total_cost(I1[i])
                 ELSE I1[i]]
        rtD == RecipeTotalDirty(oldR, newR, oldI, I2)
        R1 == [r \in DOMAIN newR |->
                 IF r \in rtD THEN Recipe_compute_total_cost(newR[r], r, I2)
                 ELSE newR[r]]
        cpsD == CostPerServingDirty(oldR, R1)
        R2 == [r \in DOMAIN R1 |->
                 IF r \in cpsD THEN Recipe_compute_cost_per_serving(R1[r])
                 ELSE R1[r]]
    IN  [recipes |-> R2, ingredients |-> I2]

\* every compute method run on every record, in dependency order
RecomputeEverything(R, I, P) ==
    LET I1 == [i \in DOMAIN I |-> [I[i] EXCEPT !.unit_cost = unit_cost(I[i], P)]]
        I2 == [i \in DOMAIN I1 |-> RecipeIngredient_compute_total_cost(I1[i])]
        R1 == [r \in DOMAIN R |-> Recipe_compute_total_cost(R[r], r, I2)]
        R2 == [r \in DOMAIN R1 |-> Recipe_compute_cost_per_serving(R1[r])]
    IN  [recipes |-> R2, ingredients |-> I2]

(* --------------------------- transactions ----------------------------- *)
Get(vals, field, default) == IF field \in DOMAIN vals THEN vals[field] ELSE default

Ok == [status |-> "ok", recipe |-> 0, rows |-> <<>>]

Raised(error) == [status |-> error, recipe |-> 0, rows |-> <<>>]

\* commit of the records a transaction wrote and recomputed
Commit(f) ==
    /\ recipes' = f.recipes
    /\ ingredients' = f.ingredients
    /\ result' = Ok

\* rollback of a transaction in which an exception was raised
Rollback(error) ==
    /\ result' = Raised(error)
    /\ UNCHANGED <<recipes, ingredients, instructions, products>>

\* ondelete='cascade' of RecipeIngredient.recipe_id
CascadeIngredients(lines, r) ==
    Restrict(lines, DOMAIN lines \ ingredient_ids(lines, r))

\* faulty variant: the steps of a deleted recipe are kept
CascadeInstructions_keep(steps, r) == steps

\* ondelete='cascade' of RecipeInstruction.recipe_id
CascadeInstructions(steps, r) ==
    Restrict(steps, DOMAIN steps \ instruction_ids(steps, r))

(* ------------------------- restaurant.recipe -------------------------- *)
RecipeCreateVals ==
    {[name |-> "recipe"]}
    \cup {[name |-> "recipe", serving_size |-> v] : v \in ServingValues}
    \cup {[name |-> "recipe", serving_size |-> v, active |-> FALSE] : v \in ServingValues}

RecipeWriteVals ==
    {[serving_size |-> v] : v \in ServingValues}
    \cup {[active |-> b] : b \in BOOLEAN}
    \cup {[serving_size |-> v, active |-> b] : v \in ServingValues, b \in BOOLEAN}

\* Recipe.create(vals): field defaults, the constraint on the new record,
\* then the stored computes
Recipe_create(vals) ==
    /\ DOMAIN recipes # RecipeIds
    /\ LET id == MinFree(RecipeIds, DOMAIN recipes)
           rec == [name |-> vals.name,
                   serving_size |-> Get(vals, "serving_size", DefaultServingSize),
                   active |-> Get(vals, "active", TRUE),
                   total_cost |-> 0,
                   cost_per_serving |-> Zero]
           f == Flush(recipes, ingredients, products,
                      Extend(recipes, id, rec), ingredients, products)
       IN  IF Recipe_check_serving_size(rec)
           THEN Rollback("ValidationError")
           ELSE Commit(f) /\ UNCHANGED <<instructions, products>>

\* faulty variant: the error is reported but the written record is kept
Recipe_write_no_rollback(r, vals) ==
    /\ r \in DOMAIN recipes
    /\ LET rec == [recipes[r] EXCEPT
                     !.serving_size = Get(vals, "serving_size", @),
                     !.active = Get(vals, "active", @)]
           f == Flush(recipes, ingredients, products,
                      [recipes EXCEPT ![r] = rec], ingredients, products)
       IN  /\ recipes' = f.recipes
           /\ ingredients' = f.ingredients
           /\ result' = IF "serving_size" \in DOMAIN vals /\ Recipe_check_serving_size(rec)
                        THEN Raised("ValidationError") ELSE Ok
           /\ UNCHANGED <<instructions, products>>

\* Recipe.write(vals) on recipe r; api.constrains('serving_size') runs the
\* check when serving_size is among the written fields
Recipe_write(r, vals) ==
    /\ r \in DOMAIN recipes
    /\ LET rec == [recipes[r] EXCEPT
                     !.serving_size = Get(vals, "serving_size", @),
                     !.active = Get(vals, "active", @)]
           f == Flush(recipes, ingredients, products,
                      [recipes EXCEPT ![r] = rec], ingredients, products)
       IN  IF "serving_size" \in DOMAIN vals /\ Recipe_check_serving_size(rec)
           THEN Rollback("ValidationError")
           ELSE Commit(f) /\ UNCHANGED <<instructions, products>>

\* Recipe.unlink() on recipe r, with the cascade to its child rows
Recipe_unlink(r) ==
    /\ r \in DOMAIN recipes
    /\ LET f == Flush(recipes, ingredients, products,
                      Restrict(recipes, DOMAIN recipes \ {r}),
                      CascadeIngredients(ingredients, r), products)
       IN  /\ Commit(f)
           /\ instructions' = CascadeInstructions(instructions, r)
           /\ UNCHANGED products

(* -------------------- restaurant.recipe.ingredient -------------------- *)
IngredientCreateVals ==
    {[recipe_id |-> r, product_id |-> p, uom_id |-> u] :
        r \in RecipeIds, p \in ProductIds, u \in UomIds}
    \cup {[recipe_id |-> r, product_id |-> p, uom_id |-> u, quantity |-> q] :
        r \in RecipeIds, p \in ProductIds, u \in UomIds, q \in Quantities}

IngredientWriteVals ==
    {[quantity |-> q] : q \in Quantities}
    \cup {[uom_id |-> u] : u \in UomIds}
    \cup {[recipe_id |-> r] : r \in RecipeIds}
    \cup {[product_id |-> p] : p \in ProductIds}

\* RecipeIngredient.create(vals); recipe_id is a required reference
RecipeIngredient_create(vals) ==
    /\ DOMAIN ingredients # IngredientIds
    /\ vals.recipe_id \in DOMAIN recipes
    /\ LET id == MinFree(IngredientIds, DOMAIN ingredients)
           line == [recipe_id |-> vals.recipe_id,
                    product_id |-> vals.product_id,
                    quantity |-> Get(vals, "quantity", DefaultQuantity),
                    uom_id |-> vals.uom_id,
                    unit_cost |-> 0,
                    total_cost |-> 0]
           f == Flush(recipes, ingredients, products,
                      recipes, Extend(ingredients, id, line), products)
       IN  Commit(f) /\ UNCHANGED <<instructions, products>>

\* RecipeIngredient.write(vals) on line i
RecipeIngredient_write(i, vals) ==
    /\ i \in DOMAIN ingredients
    /\ Get(vals, "recipe_id", ingredients[i].recipe_id) \in DOMAIN recipes
    /\ LET line == [ingredients[i] EXCEPT
                      !.quantity = Get(vals, "quantity", @),
                      !.uom_id = Get(vals, "uom_id", @),
                      !.recipe_id = Get(vals, "recipe_id", @),
                      !.product_id = Get(vals, "product_id", @)]
           f == Flush(recipes, ingredients, products,
                      recipes, [ingredients EXCEPT ![i] = line], products)
       IN  Commit(f) /\ UNCHANGED <<instructions, products>>

\* the user picks product p (or clears the product) on line i in the form:
\* the onchange runs on the edited line, then the line is saved; a line
\* without its required product is refused
RecipeIngredient_select_product(i, p) ==
    /\ i \in DOMAIN ingredients
    /\ LET line == RecipeIngredient_onchange_product_id(
                      [ingredients[i] EXCEPT !.product_id = p], products)
           f == Flush(recipes, ingredients, products,
                      recipes, [ingredients EXCEPT ![i] = line], products)
       IN  IF line.product_id = NoProduct
           THEN Rollback("MissingRequired")
           ELSE Commit(f) /\ UNCHANGED <<instructions, products>>

\* RecipeIngredient.unlink() on line i
RecipeIngredient_unlink(i) ==
    /\ i \in DOMAIN ingredients
    /\ LET f == Flush(recipes, ingredients, products,
                      recipes, Restrict(ingredients, DOMAIN ingredients \ {i}), products)
       IN  Commit(f) /\ UNCHANGED <<instructions, products>>

(* -------------------- restaurant.recipe.instruction ------------------- *)
InstructionCreateVals ==
    {[recipe_id |-> r] : r \in RecipeIds}
    \cup {[recipe_id |-> r, sequence |-> q] : r \in RecipeIds, q \in SequenceValues}

\* RecipeInstruction.create(vals); recipe_id is a required reference
RecipeInstruction_create(vals) ==
    /\ DOMAIN instructions # InstructionIds
    /\ vals.recipe_id \in DOMAIN recipes
    /\ LET id == MinFree(InstructionIds, DOMAIN instructions)
           step == [recipe_id |-> vals.recipe_id,
                    sequence |-> Get(vals, "sequence", DefaultSequence)]
       IN  instructions' = Extend(instructions, id, step)
    /\ result' = Ok
    /\ UNCHANGED <<recipes, ingredients, products>>

\* RecipeInstruction.write({'sequence': q}) on step j
RecipeInstruction_write(j, q) ==
    /\ j \in DOMAIN instructions
    /\ instructions' = [instructions EXCEPT ![j].sequence = q]
    /\ result' = Ok
    /\ UNCHANGED <<recipes, ingredients, products>>

\* RecipeInstruction.unlink() on step j
RecipeInstruction_unlink(j) ==
    /\ j \in DOMAIN instructions
    /\ instructions' = Restrict(instructions, DOMAIN instructions \ {j})
    /\ result' = Ok
    /\ UNCHANGED <<recipes, ingredients, products>>

\* _order = 'sequence': the orders ORDER BY sequence may return the rows S in;
\* the order of rows with equal sequence is left to the database
OrderBySequence(steps, S) ==
    {s \in [1..Cardinality(S) -> S] :
        /\ \A a, b \in DOMAIN s : a # b => s[a] # s[b]
        /\ \A a, b \in DOMAIN s : a < b => steps[s[a]].sequence <= steps[s[b]].sequence}

\* reading recipe.instruction_ids
RecipeInstruction_read(r) ==
    /\ r \in DOMAIN recipes
    /\ \E s \in OrderBySequence(instructions, instruction_ids(instructions, r)) :
          result' = [status |-> "read", recipe |-> r, rows |-> s]
    /\ UNCHANGED <<recipes, ingredients, instructions, products>>

(* -------------------------- product.product --------------------------- *)
\* the product's standard_price is changed (outside this module)
Product_write(p, price) ==
    /\ products' = [products EXCEPT ![p].standard_price = price]
    /\ LET f == Flush(recipes, ingredients, products,
                      recipes, ingredients, products')
       IN  Commit(f)
    /\ UNCHANGED instructions

(* --------------------------- recomputation ---------------------------- *)
\* the stored computed fields of every record are recomputed
Recompute ==
    /\ Commit(RecomputeEverything(recipes, ingredients, products))
    /\ UNCHANGED <<instructions, products>>

(* --------------------------- specifications --------------------------- *)
\* no recipe yet; the product catalogue exists, every product at MaxPrice
\* and with its own default unit of measure
Init ==
    /\ recipes = <<>>
    /\ ingredients = <<>>
    /\ instructions = <<>>
    /\ products = [p \in ProductIds |-> [standard_price |-> MaxPrice, uom_id |-> p]]
    /\ result = Ok

\* costing: recipes, ingredient lines and product prices; recipes stay active
Next ==
    \/ \E vals \in RecipeCreateVals :
          "active" \notin DOMAIN vals /\ Recipe_create(vals)
    \/ \E r \in RecipeIds, vals \in RecipeWriteVals :
          "active" \notin DOMAIN vals /\ Recipe_write(r, vals)
    \/ \E r \in RecipeIds : Recipe_unlink(r)
    \/ \E vals \in IngredientCreateVals : RecipeIngredient_create(vals)
    \/ \E i \in IngredientIds, vals \in IngredientWriteVals : RecipeIngredient_write(i, vals)
    \/ \E i \in IngredientIds, p \in ProductIds \cup {NoProduct} :
          RecipeIngredient_select_product(i, p)
    \/ \E i \in IngredientIds : RecipeIngredient_unlink(i)
    \/ \E p \in ProductIds, price \in Prices : Product_write(p, price)
    \/ Recompute

Spec == Init /\ [][Next]_vars

\* ownership: recipes with both kinds of child rows, lines created with the
\* default quantity and the product's default unit
NextCascade ==
    \/ \E vals \in RecipeCreateVals : Recipe_create(vals)
    \/ \E r \in RecipeIds, vals \in RecipeWriteVals : Recipe_write(r, vals)
    \/ \E r \in RecipeIds : Recipe_unlink(r)
    \/ \E vals \in IngredientCreateVals :
          /\ "quantity" \notin DOMAIN vals
          /\ vals.uom_id = products[vals.product_id].uom_id
          /\ RecipeIngredient_create(vals)
    \/ \E i \in IngredientIds : RecipeIngredient_unlink(i)
    \/ \E vals \in InstructionCreateVals : RecipeInstruction_create(vals)
    \/ \E j \in InstructionIds : RecipeInstruction_unlink(j)

SpecCascade == Init /\ [][NextCascade]_vars

\* instruction steps: their order on read
NextInstr ==
    \/ \E vals \in RecipeCreateVals : Recipe_create(vals)
    \/ \E r \in RecipeIds : Recipe_unlink(r)
    \/ \E vals \in InstructionCreateVals : RecipeInstruction_create(vals)
    \/ \E j \in InstructionIds, q \in SequenceValues : RecipeInstruction_write(j, q)
    \/ \E j \in InstructionIds : RecipeInstruction_unlink(j)
    \/ \E r \in RecipeIds : RecipeInstruction_read(r)

SpecInstr == Init /\ [][NextInstr]_vars

(* ------------------------------ claims -------------------------------- *)
\* sum of quantity * unit_cost over the lines S
RECURSIVE SumQuantityTimesUnitCost(_, _)
SumQuantityTimesUnitCost(lines, S) ==
    IF S = {} THEN 0
    ELSE LET i == CHOOSE x \in S : TRUE
         IN  lines[i].quantity * lines[i].unit_cost
               + SumQuantityTimesUnitCost(lines, S \ {i})

\* sum of quantity * the product's current standard_price over the lines S
RECURSIVE SumQuantityTimesPrice(_, _, _)
SumQuantityTimesPrice(lines, prods, S) ==
    IF S = {} THEN 0
    ELSE LET i == CHOOSE x \in S : TRUE
         IN  lines[i].quantity * prods[lines[i].product_id].standard_price
               + SumQuantityTimesPrice(lines, prods, S \ {i})

\* cost_per_serving of recipe record rec is total_cost / serving_size, or 0.0
RatioHolds(rec) ==
    IF rec.serving_size > 0
    THEN /\ rec.cost_per_serving.den > 0
         /\ rec.cost_per_serving.num * rec.serving_size
              = rec.total_cost * rec.cost_per_serving.den
    ELSE rec.cost_per_serving = Zero

\* C1: every existing recipe has serving_size > 0, and a create or a write
\* whose resulting serving_size is <= 0 ends with a validation error
C1_ServingSizePositive ==
    /\ [](\A r \in DOMAIN recipes : recipes[r].serving_size > 0)
    /\ [][/\ \A vals \in RecipeCreateVals :
               Get(vals, "serving_size", DefaultServingSize) <= 0
                 => (result'.status = "ValidationError" \/ ~Recipe_create(vals))
          /\ \A r \in RecipeIds, vals \in RecipeWriteVals :
               Get(vals, "serving_size", 1) <= 0
                 => (result'.status = "ValidationError" \/ ~Recipe_write(r, vals))
         ]_vars

\* a write of a non-positive serving_size on an existing recipe was rejected
C1_Witness ==
    /\ result.status = "ValidationError"
    /\ \E r \in DOMAIN recipes : recipes[r].serving_size = MaxServing

\* C2: a transaction rejected with a validation error leaves every recipe,
\* ingredient line and instruction step as it was before the operation
C2_RejectedWriteChangesNothing ==
    [][result'.status = "ValidationError"
         => /\ recipes' = recipes
            /\ ingredients' = ingredients
            /\ instructions' = instructions
            /\ products' = products]_vars

\* a rejected operation on a database holding a costed recipe with child rows
C2_Witness ==
    /\ result.status = "ValidationError"
    /\ \E r \in DOMAIN recipes :
          /\ recipes[r].total_cost > 0
          /\ recipes[r].cost_per_serving # Zero
          /\ recipes[r].serving_size = MaxServing
          /\ ingredient_ids(ingredients, r) # {}
          /\ instruction_ids(instructions, r) # {}

\* C3: every recipe's total_cost is the sum of quantity * unit_cost over
\* exactly the lines it owns, and every line's total_cost is fresh
C3_TotalCostIsSumOfLines ==
    /\ \A r \in DOMAIN recipes :
          recipes[r].total_cost
            = SumQuantityTimesUnitCost(ingredients, ingredient_ids(ingredients, r))
    /\ \A i \in DOMAIN ingredients :
          ingredients[i].total_cost = ingredients[i].quantity * ingredients[i].unit_cost

\* a recipe owning two costed lines, one of them edited away from the default
C3_Witness ==
    \E r \in DOMAIN recipes :
       /\ Cardinality(ingredient_ids(ingredients, r)) = 2
       /\ \A i \in ingredient_ids(ingredients, r) : ingredients[i].total_cost > 0
       /\ \E i \in ingredient_ids(ingredients, r) : ingredients[i].quantity = MaxQuantity
       /\ recipes[r].total_cost > MaxQuantity * MaxPrice

\* C4: cost_per_serving is total_cost / serving_size (0.0 when serving_size
\* is not positive), and a change of serving_size leaves total_cost alone
C4_CostPerServingIsRatio ==
    /\ [](\A r \in DOMAIN recipes : RatioHolds(recipes[r]))
    /\ [][\A r \in DOMAIN recipes \cap DOMAIN recipes' :
             recipes'[r].serving_size # recipes[r].serving_size
               => /\ recipes'[r].total_cost = recipes[r].total_cost
                  /\ RatioHolds(recipes'[r])]_vars

\* a recipe whose cost does not divide evenly among its servings
C4_Witness ==
    \E r \in DOMAIN recipes :
       /\ recipes[r].serving_size = MaxServing
       /\ recipes[r].total_cost % MaxServing # 0
       /\ recipes[r].cost_per_serving.den # 1

\* C5: no ingredient line or instruction step references a missing recipe,
\* and deleting a recipe removes exactly the rows it owns
C5_CascadeDelete ==
    /\ [](/\ \A i \in DOMAIN ingredients : ingredients[i].recipe_id \in DOMAIN recipes
          /\ \A j \in DOMAIN instructions : instructions[j].recipe_id \in DOMAIN recipes)
    /\ [][\A r \in DOMAIN recipes \ DOMAIN recipes' :
             /\ DOMAIN ingredients' = DOMAIN ingredients \ ingredient_ids(ingredients, r)
             /\ DOMAIN instructions' = DOMAIN instructions \ instruction_ids(instructions, r)
             /\ \A i \in DOMAIN ingredients' : ingredients'[i] = ingredients[i]
             /\ \A j \in DOMAIN instructions' : instructions'[j] = instructions[j]]_vars

\* recipe 1 and its rows are gone (ids are handed out lowest first, so rows 1
\* existed), recipe 2 still has its ingredient line and its instruction step
C5_Witness ==
    /\ DOMAIN recipes = {2}
    /\ DOMAIN ingredients = {2}
    /\ DOMAIN instructions = {2}

\* C6: every line's unit_cost is its product's current standard price, and
\* the line cost, the recipe total and the cost per serving follow from it
C6_PricePropagates ==
    /\ \A i \in DOMAIN ingredients :
          /\ ingredients[i].unit_cost = products[ingredients[i].product_id].standard_price
          /\ ingredients[i].total_cost
               = ingredients[i].quantity * products[ingredients[i].product_id].standard_price
    /\ \A r \in DOMAIN recipes :
          /\ recipes[r].total_cost
               = SumQuantityTimesPrice(ingredients, products, ingredient_ids(ingredients, r))
          /\ RatioHolds(recipes[r])

\* a product whose price was changed while a costed line refers to it, next
\* to a line whose product was changed to another one
C6_Witness ==
    \E i, k \in DOMAIN ingredients, p \in ProductIds :
       /\ i # k
       /\ products[p].standard_price # MaxPrice
       /\ ingredients[i].product_id = p
       /\ ingredients[i].quantity = MaxQuantity
       /\ ingredients[k].product_id # p
       /\ ingredients[k].uom_id = products[p].uom_id
       /\ recipes[ingredients[i].recipe_id].total_cost >= MaxQuantity

\* C8: recomputing every derived field of a settled database changes nothing
C8_RecomputeIdempotent ==
    [][Recompute => /\ recipes' = recipes
                    /\ ingredients' = ingredients
                    /\ instructions' = instructions
                    /\ products' = products]_vars

\* a settled database with a recipe costed from two lines
C8_Witness ==
    /\ result.status = "ok"
    /\ \E r \in DOMAIN recipes :
          /\ Cardinality(ingredient_ids(ingredients, r)) = 2
          /\ recipes[r].total_cost = 2 * MaxQuantity * MaxPrice
          /\ recipes[r].serving_size = MaxServing

\* C9: selecting a product sets the line's unit to the product's default,
\* selecting none keeps it, and the unit changes in no other way than by a
\* product selection or an explicit write of uom_id
C9_UomOnlyFromSelection ==
    /\ [](\A i \in DOMAIN ingredients :
            RecipeIngredient_onchange_product_id(
               [ingredients[i] EXCEPT !.product_id = NoProduct], products).uom_id
              = ingredients[i].uom_id)
    /\ [][/\ \A i \in DOMAIN ingredients, p \in ProductIds :
               \/ /\ i \in DOMAIN ingredients'
                  /\ ingredients'[i].uom_id = products[p].uom_id
               \/ ~RecipeIngredient_select_product(i, p)
          /\ \A i \in DOMAIN ingredients \cap DOMAIN ingredients' :
               ingredients'[i].uom_id # ingredients[i].uom_id
                 => \/ \E p \in ProductIds : RecipeIngredient_select_product(i, p)
                    \/ \E u \in UomIds : RecipeIngredient_write(i, [uom_id |-> u])
         ]_vars

\* a line whose unit was set to another unit than its product's default, and
\* whose quantity and product price were changed afterwards
C9_Witness ==
    \E i \in DOMAIN ingredients :
       /\ ingredients[i].uom_id # products[ingredients[i].product_id].uom_id
       /\ ingredients[i].quantity = MaxQuantity
       /\ products[ingredients[i].product_id].standard_price # MaxPrice
       /\ ingredients[i].total_cost = MaxQuantity * ingredients[i].unit_cost

\* recipes owning a line that the step creates, removes or alters
Touched ==
    {r \in RecipeIds :
        \/ \E i \in DOMAIN ingredients \ DOMAIN ingredients' : ingredients[i].recipe_id = r
        \/ \E i \in DOMAIN ingredients' \ DOMAIN ingredients : ingredients'[i].recipe_id = r
        \/ \E i \in DOMAIN ingredients \cap DOMAIN ingredients' :
              /\ ingredients'[i] # ingredients[i]
              /\ r \in {ingredients[i].recipe_id, ingredients'[i].recipe_id}}

\* C10: a line re-pointed from recipe A to recipe B leaves A costed without
\* it and B with it, and a recipe none of whose lines is touched keeps its
\* total_cost and cost_per_serving
C10_NoCostLeak ==
    [][/\ \A i \in DOMAIN ingredients \cap DOMAIN ingredients' :
            ingredients'[i].recipe_id # ingredients[i].recipe_id
              => \A r \in {ingredients[i].recipe_id, ingredients'[i].recipe_id} :
                    /\ recipes'[r].total_cost
                         = SumQuantityTimesUnitCost(ingredients',
                                                    ingredient_ids(ingredients', r))
                    /\ RatioHolds(recipes'[r])
       /\ \A r \in (DOMAIN recipes \cap DOMAIN recipes') \ Touched :
            recipes'[r].serving_size = recipes[r].serving_size
              => /\ recipes'[r].total_cost = recipes[r].total_cost
                 /\ recipes'[r].cost_per_serving = recipes[r].cost_per_serving
      ]_vars

\* both lines belong to recipe 2 although recipe 1 exists: recipe 1 is costed
\* at nothing and recipe 2 at both lines
C10_Witness ==
    /\ DOMAIN recipes = RecipeIds
    /\ DOMAIN ingredients = {1, 2}
    /\ \A i \in DOMAIN ingredients :
          ingredients[i].recipe_id = 2 /\ ingredients[i].total_cost > 0
    /\ recipes[1].total_cost = 0
    /\ recipes[2].total_cost > 0
    /\ recipes[1].serving_size = MaxServing

\* the rows of a read are exactly the recipe's steps, each once, in
\* ascending order of sequence
ReadIsSorted ==
    result.status = "read"
      => /\ Len(result.rows)
              = Cardinality(instruction_ids(instructions, result.recipe))
         /\ {result.rows[a] : a \in DOMAIN result.rows}
              = instruction_ids(instructions, result.recipe)
         /\ \A a, b \in DOMAIN result.rows :
               a < b => instructions[result.rows[a]].sequence
                          <= instructions[result.rows[b]].sequence

\* C7: the steps read back for a recipe are all of its steps in ascending
\* order of sequence, a step created without a sequence gets sequence 10, and
\* two reads of the same recipe with no change in between return the same
\* order
C7_ReadOrderSortedAndStable ==
    /\ []ReadIsSorted
    /\ [][\A vals \in InstructionCreateVals :
             ("sequence" \notin DOMAIN vals /\ RecipeInstruction_create(vals))
               => \E j \in DOMAIN instructions' \ DOMAIN instructions :
                     instructions'[j].sequence = 10]_vars
    /\ [][(/\ result.status = "read"
           /\ result'.status = "read"
           /\ result'.recipe = result.recipe
           /\ instructions' = instructions)
            => result'.rows = result.rows]_vars

=============================================================================
